---- MODULE Spec2Model ----
(***************************************************************************)
(* A model of the statement-to-ledger pipeline of finance-processing:      *)
(*   - the account assembler (4_extract_monthly transactions/account.py),  *)
(*   - the batch drivers and their processed-files ledger                  *)
(*     (3_extract_data/{apple,chase_metadata,discover_metadata,pnc,sofi}), *)
(*   - the CSV cross-filler (3_extract_data/{chase,discover}_csv.py).      *)
(* Money is an integer number of cents (Decimal quantised to 2 places),    *)
(* a date is an integer day number, a period is a pair <<year, month>>.    *)
(***************************************************************************)
EXTENDS Integers, Sequences, FiniteSets, TLC

VARIABLES
    disk,   \* Processed Data/<year>/<month>/{metadata.json, transactions.csv}
    acct,   \* the Account object (account.py), or NoAcct before construction
    out,    \* what the last operation returned or raised
    batch,  \* one institution's Statements folder, its statements_db.csv and
            \* the run of its batch driver
    xfill,  \* a bulk CSV export and the cross-filler's call on it
    arg,    \* what a function of the extraction or discovery code is given
    ret     \* what that function returned or raised

vars == <<disk, acct, out, batch, xfill, arg, ret>>

(***************************************************************************)
(* Bounds of the model.                                                    *)
(***************************************************************************)
MaxRows == 2        \* transaction rows on disk, all months together
MaxRowsLoad == 1    \* the same, in the directories of SpecLoad
MaxFiles == 2       \* statement files in a Statements folder
MaxRuns == 2        \* runs of a batch driver
MaxCsvRows == 2     \* rows of a bulk CSV export
MaxStmtRows == 2    \* rows of the table extracted from a statement
MaxLines == 5       \* lines of a statement's text
MaxCopies == 2      \* places under the account root with the same <year>/<month>

Dates == {1, 2, 3}                \* transaction dates, as day numbers
QueryDates == {0, 1, 2, 3, 4}     \* dates asked of the ledger
Cents == 0..2                     \* balances written in a metadata.json
Amts == {-1, 1}                   \* amounts of a transactions.csv row
DiskPeriods == {<<2023, 12>>, <<2024, 1>>, <<2024, 2>>}
ArgPeriods == {<<2023, 11>>} \cup DiskPeriods
OpenDates == {<<2023, 12>>}
NoPeriod == <<0, 0>>              \* the argument None
Tol == 1                          \* Decimal("0.01"), in cents
NaT == -1                         \* pandas' min()/max() of an empty Date column

(***************************************************************************)
(* Helpers.                                                                *)
(***************************************************************************)
Abs(x) == IF x < 0 THEN -x ELSE x

SeqsUpTo(S, n) == UNION {[1..k -> S] : k \in 0..n}

RECURSIVE SumAmount(_)
SumAmount(rows) ==
    IF rows = <<>> THEN 0 ELSE rows[1].Amount + SumAmount(Tail(rows))

PeriodLt(a, b) == a[1] < b[1] \/ (a[1] = b[1] /\ a[2] < b[2])

(***************************************************************************)
(* account.py: the files of one month and the Account object.              *)
(***************************************************************************)
NoMonth == [present |-> FALSE, beg |-> 0, end |-> 0, rows |-> <<>>]

\* build_account_file_index + the normalised index: the periods on disk
nindex(d) == {p \in DOMAIN d : d[p].present}

\* load_metadata_from_json: the two balances of a month's metadata.json
load_metadata_from_json(d, p) ==
    [Beginning |-> d[p].beg, Ending |-> d[p].end]

\* load_data_from_csv, then the StatementYear / StatementMonth columns.
\* The Balance column of the file is not among the columns read.
load_data_from_csv(d, p) ==
    [i \in 1..Len(d[p].rows) |->
        [Date |-> d[p].rows[i].Date,
         Amount |-> d[p].rows[i].Amount,
         Description |-> d[p].rows[i].Description,
         StatementYear |-> p[1],
         StatementMonth |-> p[2],
         Balance |-> 0]]

NoAcct ==
    [exists |-> FALSE, open_date |-> NoPeriod, data |-> <<>>,
     metadata_by_period |-> <<>>,
     metadata |-> [Beginning |-> 0, Ending |-> 0,
                   start_period |-> NoPeriod, end_period |-> NoPeriod],
     min_date |-> NaT, max_date |-> NaT]

NoOut ==
    [op |-> "none", status |-> "none", reason |-> "", missing |-> <<>>,
     at |-> NoPeriod, start_dt |-> NoPeriod, end_dt |-> NoPeriod,
     d1 |-> 0, d2 |-> 0, value |-> 0, warnings |-> 0, rows |-> <<>>]

NoBatch ==
    [inst |-> "none", pdfs |-> <<>>, db |-> <<>>, pc |-> "idle",
     todo |-> {}, new_statements |-> <<>>, persisted |-> {},
     runs |-> 0, start_db |-> {}, start_todo |-> {}, attempted |-> {},
     failed |-> {}, prev_failed |-> {}, wrote_db |-> FALSE,
     aborted |-> FALSE]

NoArg == [fn |-> "none"]
NoRet == [fn |-> "none"]

NoFill ==
    [inst |-> "none", pc |-> "none", csv |-> <<>>, df |-> <<>>,
     beginning_date |-> 0, ending_date |-> 0, Beginning |-> 0,
     isNone |-> FALSE, rows |-> <<>>, success |-> FALSE]

\* _month_iter: the (year, month) keys from sdt to edt, both included
RECURSIVE month_iter(_, _, _)
month_iter(y, m, edt) ==
    IF (y < edt[1]) \/ (y = edt[1] /\ m <= edt[2])
    THEN <<(<<y, m>>)>> \o (IF m = 12 THEN month_iter(y + 1, 1, edt)
                                      ELSE month_iter(y, m + 1, edt))
    ELSE <<>>

\* latest_year / latest_month: the greatest month of the greatest year
latest_dt(idx) ==
    LET latest_year == CHOOSE y \in {p[1] : p \in idx} :
                           \A p \in idx : p[1] <= y
        latest_month == CHOOSE m \in {p[2] : p \in {q \in idx : q[1] = latest_year}} :
                           \A p \in idx : p[1] = latest_year => p[2] <= m
    IN <<latest_year, latest_month>>

\* (mutant) only the first period of the range is looked up
MissingPeriods_first_only(periods, idx) ==
    IF periods # <<>> /\ periods[1] \notin idx THEN <<periods[1]>> ELSE <<>>

\* the periods of the range that the index lacks, in range order
MissingPeriods(periods, idx) ==
    SelectSeq(periods, LAMBDA p : p \notin idx)

\* (mutant) the difference is compared without copy_abs()
MonthTotalFails_signed(meta, month_sum) ==
    meta.Beginning + month_sum - meta.Ending > Tol

\* Month total check: |Beginning + sum(Amount) - Ending| > 0.01
MonthTotalFails(meta, month_sum) ==
    Abs(meta.Beginning + month_sum - meta.Ending) > Tol

\* (mutant) the difference is compared without copy_abs()
ContinuityFails_signed(meta, has_prev, prev_end) ==
    has_prev /\ meta.Beginning - prev_end > Tol

\* Continuity check with the previous month
ContinuityFails(meta, has_prev, prev_end) ==
    has_prev /\ Abs(meta.Beginning - prev_end) > Tol

\* the for loop of load_data over the periods of the range
RECURSIVE LoadMonths(_, _, _, _)
LoadMonths(d, periods, i, st) ==
    IF i > Len(periods) THEN st
    ELSE
      LET p == periods[i]
          meta == load_metadata_from_json(d, p)
          df == load_data_from_csv(d, p)
          month_sum == SumAmount(df)
      IN IF MonthTotalFails(meta, month_sum)
         THEN [st EXCEPT !.error = "month_total", !.at = p]
         ELSE IF ContinuityFails(meta, st.has_prev, st.prev_end)
         THEN [st EXCEPT !.error = "continuity", !.at = p]
         ELSE LoadMonths(d, periods, i + 1,
                [st EXCEPT
                   !.first_beginning = IF st.has_first THEN @ ELSE meta.Beginning,
                   !.has_first = TRUE,
                   !.prev_end = meta.Ending,
                   !.has_prev = TRUE,
                   !.loaded = Append(@, p),
                   !.frames = @ \o df])

\* (mutant) a row goes before the rows of equal key: the sort is not stable
KeyLe_strict(a, b) ==
    \/ a.Date < b.Date
    \/ a.Date = b.Date /\ a.StatementYear < b.StatementYear
    \/ a.Date = b.Date /\ a.StatementYear = b.StatementYear
         /\ a.StatementMonth < b.StatementMonth

\* sort key of sort_values(["Date", "StatementYear", "StatementMonth"])
KeyLe(a, b) ==
    \/ a.Date < b.Date
    \/ a.Date = b.Date /\ a.StatementYear < b.StatementYear
    \/ a.Date = b.Date /\ a.StatementYear = b.StatementYear
         /\ a.StatementMonth <= b.StatementMonth

\* kind="stable": a row goes after every row whose key is not greater
RECURSIVE InsertStable(_, _)
InsertStable(sorted, r) ==
    IF sorted = <<>> THEN <<r>>
    ELSE IF KeyLe(sorted[Len(sorted)], r) THEN Append(sorted, r)
    ELSE Append(InsertStable(SubSeq(sorted, 1, Len(sorted) - 1), r),
                sorted[Len(sorted)])

RECURSIVE SortStable(_)
SortStable(rows) ==
    IF rows = <<>> THEN <<>>
    ELSE InsertStable(SortStable(SubSeq(rows, 1, Len(rows) - 1)), rows[Len(rows)])

\* (mutant) the running balance is seeded with zero
RECURSIVE RunningBalance_unseeded(_, _)
RunningBalance_unseeded(rows, total) ==
    IF rows = <<>> THEN <<>>
    ELSE <<[rows[1] EXCEPT !.Balance = rows[1].Amount]>>
         \o [i \in 1..(Len(rows) - 1) |->
               [rows[i + 1] EXCEPT
                  !.Balance = SumAmount(SubSeq(rows, 1, i + 1))]]

\* Running balance: total = first_beginning; total += amt for each row
RECURSIVE RunningBalance(_, _)
RunningBalance(rows, total) ==
    IF rows = <<>> THEN <<>>
    ELSE <<[rows[1] EXCEPT !.Balance = total + rows[1].Amount]>>
         \o RunningBalance(Tail(rows), total + rows[1].Amount)

DateMin(rows) ==
    IF rows = <<>> THEN NaT
    ELSE CHOOSE x \in {rows[i].Date : i \in 1..Len(rows)} :
           \A i \in 1..Len(rows) : x <= rows[i].Date

DateMax(rows) ==
    IF rows = <<>> THEN NaT
    ELSE CHOOSE x \in {rows[i].Date : i \in 1..Len(rows)} :
           \A i \in 1..Len(rows) : x >= rows[i].Date

\* Account.load_data(start, end) on the object self: what it raises, and
\* the object it leaves
load_data(self, d, start, end) ==
    LET idx == nindex(d)
        fail(reason, status, missing, at, sdt, edt, self2) ==
            [status |-> status, reason |-> reason, missing |-> missing,
             at |-> at, start_dt |-> sdt, end_dt |-> edt, self |-> self2]
    IN
    IF idx = {}
    THEN fail("no_statements", "FileNotFoundError", <<>>, NoPeriod,
              NoPeriod, NoPeriod, self)
    ELSE
      LET start_dt == IF start = NoPeriod THEN self.open_date ELSE start
          end_dt == IF end = NoPeriod THEN latest_dt(idx) ELSE end
      IN
      IF PeriodLt(end_dt, start_dt)
      THEN fail("end_before_start", "ValueError", <<>>, NoPeriod,
                start_dt, end_dt, self)
      ELSE
        LET periods == month_iter(start_dt[1], start_dt[2], end_dt)
            missing == MissingPeriods(periods, idx)
        IN
        IF missing # <<>>
        THEN fail("missing", "FileNotFoundError", missing, NoPeriod,
                  start_dt, end_dt, self)
        ELSE
          LET st == LoadMonths(d, periods, 1,
                      [error |-> "", at |-> NoPeriod,
                       first_beginning |-> 0, has_first |-> FALSE,
                       prev_end |-> 0, has_prev |-> FALSE,
                       loaded |-> <<>>, frames |-> <<>>])
              mbp == [p \in {st.loaded[i] : i \in 1..Len(st.loaded)} |->
                         load_metadata_from_json(d, p)]
          IN
          IF st.error # ""
          THEN fail(st.error, "ValueError", <<>>, st.at, start_dt, end_dt,
                    [self EXCEPT !.metadata_by_period = mbp])
          ELSE
            [status |-> "ok", reason |-> "", missing |-> <<>>, at |-> NoPeriod,
             start_dt |-> start_dt, end_dt |-> end_dt,
             self |-> [self EXCEPT
                 !.metadata_by_period = mbp,
                 !.data = RunningBalance(SortStable(st.frames), st.first_beginning),
                 !.metadata = [Beginning |-> st.first_beginning,
                               Ending |-> st.prev_end,
                               start_period |-> start_dt,
                               end_period |-> end_dt]]]

LoadOut(op, r) ==
    [NoOut EXCEPT !.op = op, !.status = r.status, !.reason = r.reason,
                  !.missing = r.missing, !.at = r.at,
                  !.start_dt = r.start_dt, !.end_dt = r.end_dt]

\* Account.__init__: details.json, load_data, then min_date / max_date
\* (a constructor that raised leaves no object: calling it again starts
\* from the same state, so the model takes the call once)
Construct(open_date, start, end) ==
    /\ ~acct.exists
    /\ out = NoOut
    /\ \E r \in {load_data([NoAcct EXCEPT !.exists = TRUE,
                                              !.open_date = open_date],
                             disk, start, end)} :
          /\ acct' = IF r.status = "ok"
                     THEN [r.self EXCEPT !.min_date = DateMin(r.self.data),
                                         !.max_date = DateMax(r.self.data)]
                     ELSE NoAcct
          /\ out' = LoadOut("construct", r)
    /\ UNCHANGED <<disk, batch, xfill, arg, ret>>

QueryOps == {"get_balance", "get_transactions"}

\* load_data called again on a constructed Account: __init__'s min_date and
\* max_date are not assigned by load_data.
\* (a query leaves the object as it was: whatever follows a query is
\* reachable without it, and the model does not continue past one)
Reload(start, end) ==
    /\ acct.exists
    /\ out.op \notin QueryOps
    /\ \E r \in {load_data(acct, disk, start, end)} :
          /\ acct' = r.self
          /\ out' = LoadOut("load_data", r)
    /\ UNCHANGED <<disk, batch, xfill, arg, ret>>

\* an ordering comparison with NaT is False
Lt(a, b) == a # NaT /\ b # NaT /\ a < b

\* Series.searchsorted(date, side="right") on the sorted Date column
searchsorted_right(df, date_obj) ==
    Cardinality({i \in 1..Len(df) : df[i].Date <= date_obj})

\* df.iloc[k], k counted from 0, a negative k from the end
iloc(df, k) ==
    LET pos == IF k < 0 THEN Len(df) + k + 1 ELSE k + 1
    IN IF pos \in 1..Len(df)
       THEN [raised |-> FALSE, row |-> df[pos]]
       ELSE [raised |-> TRUE, row |-> <<>>]

\* get_col_val(df, "Balance", date_obj, min_date, max_date)
get_col_val(df, date_obj, min_date, max_date) ==
    IF Lt(date_obj, min_date)
    THEN [raised |-> FALSE, value |-> 0, warnings |-> 0]
    ELSE IF Lt(max_date, date_obj)
    THEN LET r == iloc(df, -1)
         IN IF r.raised THEN [raised |-> TRUE, value |-> 0, warnings |-> 1]
            ELSE [raised |-> FALSE, value |-> r.row.Balance, warnings |-> 1]
    ELSE LET idx == searchsorted_right(df, date_obj)
             r == iloc(df, idx - 1)
         IN IF r.raised THEN [raised |-> TRUE, value |-> 0, warnings |-> 0]
            ELSE [raised |-> FALSE, value |-> r.row.Balance, warnings |-> 0]

\* Account.get_balance(year, month, day, return_warnings=True)
GetBalance(date_obj) ==
    /\ acct.exists
    /\ out.op \notin QueryOps
    /\ \E r \in {get_col_val(acct.data, date_obj, acct.min_date, acct.max_date)} :
          out' = [NoOut EXCEPT !.op = "get_balance",
                     !.status = IF r.raised THEN "IndexError" ELSE "ok",
                     !.d1 = date_obj, !.value = r.value,
                     !.warnings = r.warnings]
    /\ UNCHANGED <<disk, acct, batch, xfill, arg, ret>>

DateFilter(df, start_date_obj, end_date_obj) ==
    SelectSeq(df, LAMBDA r : r.Date >= start_date_obj /\ r.Date <= end_date_obj)

\* get_df_range(df, start, end) with min_date = max_date = None
get_df_range(df, start_date_obj, end_date_obj) ==
    LET min_date == DateMin(df)
        max_date == DateMax(df)
    IN
    IF start_date_obj > end_date_obj
    THEN [raised |-> TRUE, rows |-> <<>>, warnings |-> 0]
    ELSE IF Lt(end_date_obj, min_date)
    THEN [raised |-> FALSE, rows |-> <<>>, warnings |-> 1]
    ELSE IF Lt(max_date, start_date_obj)
    THEN [raised |-> FALSE, rows |-> <<>>, warnings |-> 1]
    ELSE IF Lt(max_date, end_date_obj)
    THEN [raised |-> FALSE, warnings |-> 1,
          rows |-> DateFilter(df, start_date_obj, end_date_obj)]
    ELSE [raised |-> FALSE, warnings |-> 0,
          rows |-> DateFilter(df, start_date_obj, end_date_obj)]

\* Account.get_transactions(start_date, end_date)
GetTransactions(start_date, end_date) ==
    /\ acct.exists
    /\ out.op \notin QueryOps
    /\ \E r \in {get_df_range(acct.data, start_date, end_date)} :
          out' = [NoOut EXCEPT !.op = "get_transactions",
                     !.status = IF r.raised THEN "ValueError" ELSE "ok",
                     !.d1 = start_date, !.d2 = end_date,
                     !.rows = r.rows, !.warnings = r.warnings]
    /\ UNCHANGED <<disk, acct, batch, xfill, arg, ret>>

(***************************************************************************)
(* The directories the assembler may find.                                 *)
(***************************************************************************)
Metas == [beg : Cents, end : Cents]

\* rows tagged with the month directory they are in, in directory order
TaggedRows(D, n) ==
    {s \in SeqsUpTo(DiskPeriods \X D \X Amts, n) :
        \A i \in 1..Len(s) : \A j \in 1..Len(s) :
            i < j => ~PeriodLt(s[j][1], s[i][1])}

RowsOf(s, p) ==
    LET sel == SelectSeq(s, LAMBDA t : t[1] = p)
    IN [i \in 1..Len(sel) |->
          [Date |-> sel[i][2], Amount |-> sel[i][3], Description |-> i]]

MkDisk(pres, metas, s) ==
    [p \in DiskPeriods |->
        IF p \in pres
        THEN [present |-> TRUE, beg |-> metas[p].beg, end |-> metas[p].end,
              rows |-> RowsOf(s, p)]
        ELSE NoMonth]

\* any set of month directories, any two balances in each metadata.json
LoadDisks ==
    {MkDisk(pres, metas, s) :
        pres \in SUBSET DiskPeriods,
        metas \in [DiskPeriods -> Metas],
        s \in TaggedRows({1}, MaxRowsLoad)}

InitLoad ==
    /\ disk \in LoadDisks
    /\ acct = NoAcct
    /\ out = NoOut
    /\ batch = NoBatch
    /\ xfill = NoFill
    /\ arg = NoArg
    /\ ret = NoRet

NextLoad ==
    \E od \in OpenDates, s \in ArgPeriods \cup {NoPeriod},
       e \in ArgPeriods \cup {NoPeriod} : Construct(od, s, e)

SpecLoad == InitLoad /\ [][NextLoad]_vars

(***************************************************************************)
(* Claims about Account.load_data.                                         *)
(***************************************************************************)
LoadOps == {"construct", "load_data"}

AllPeriods == {<<y, m>> : y \in 2023..2024, m \in 1..12}
PeriodIndex(p) == 12 * p[1] + p[2]

\* the months from a to b, both included, by their position in the calendar
PeriodsBetween(a, b) ==
    {p \in AllPeriods : PeriodIndex(a) <= PeriodIndex(p)
                        /\ PeriodIndex(p) <= PeriodIndex(b)}

\* the range of the last load, when the load got as far as resolving one
RangeResolved ==
    /\ out.op \in LoadOps
    /\ out.start_dt # NoPeriod
    /\ ~PeriodLt(out.end_dt, out.start_dt)

LastRange == PeriodsBetween(out.start_dt, out.end_dt)

SeqToSet(s) == {s[i] : i \in 1..Len(s)}

RowsOfMonth(rows, p) ==
    SelectSeq(rows, LAMBDA r : r.StatementYear = p[1] /\ r.StatementMonth = p[2])

MonthsAbsent == {p \in LastRange : p \notin DOMAIN disk \/ ~disk[p].present}

\* C1: when a month of the resolved range is absent from the index, the
\* load fails and its error names exactly the absent months of the range;
\* a load that succeeds holds every month of the range, with all its rows.
C1_GapIsFatal ==
    RangeResolved =>
      \A range \in {LastRange} :
      \A absent \in {{p \in range : p \notin DOMAIN disk \/ ~disk[p].present}} :
        /\ absent # {} =>
              /\ out.status = "FileNotFoundError"
              /\ out.reason = "missing"
              /\ SeqToSet(out.missing) = absent
              /\ Len(out.missing) = Cardinality(absent)
              /\ (out.op = "construct" => ~acct.exists)
        /\ out.status = "ok" =>
              /\ DOMAIN acct.metadata_by_period = range
              /\ \A p \in range :
                    Len(RowsOfMonth(acct.data, p)) = Len(disk[p].rows)

\* a load over a range with a hole in its middle has failed
C1_Witness ==
    /\ RangeResolved
    /\ out.status = "FileNotFoundError"
    /\ out.start_dt = <<2023, 12>> /\ out.end_dt = <<2024, 2>>
    /\ MonthsAbsent = {<<2024, 1>>}

NextPeriod(p) == IF p[2] = 12 THEN <<p[1] + 1, 1>> ELSE <<p[1], p[2] + 1>>

\* C2: in a ledger that load_data returns, each month begins within one
\* cent of the previous month's ending balance; a range with a larger
\* mismatch at some boundary makes the load fail.
C2_Continuity ==
    /\ (out.op \in LoadOps /\ out.status = "ok") =>
          \A p \in DOMAIN acct.metadata_by_period :
              NextPeriod(p) \in DOMAIN acct.metadata_by_period =>
                  Abs(acct.metadata_by_period[NextPeriod(p)].Beginning
                      - acct.metadata_by_period[p].Ending) <= Tol
    /\ RangeResolved =>
         \A range \in {LastRange} :
           (/\ \A p \in range : p \in DOMAIN disk /\ disk[p].present
            /\ \E p \in range :
                  /\ NextPeriod(p) \in range
                  /\ Abs(disk[NextPeriod(p)].beg - disk[p].end) > Tol)
           => out.status = "ValueError"

\* a three-month ledger was returned whose boundaries are one cent off,
\* one in each direction
C2_Witness ==
    /\ out.op = "construct" /\ out.status = "ok"
    /\ DOMAIN acct.metadata_by_period = DiskPeriods
    /\ disk[<<2024, 1>>].beg - disk[<<2023, 12>>].end = 1
    /\ disk[<<2024, 2>>].beg - disk[<<2024, 1>>].end = -1

MonthOff(p) == disk[p].beg + SumAmount(disk[p].rows) - disk[p].end

\* C3: every month of a returned ledger satisfies
\* |Beginning + sum(Amount) - Ending| <= 0.01, computed from the rows the
\* ledger holds; a range with a month beyond that makes the load fail.
C3_MonthTotals ==
    /\ (out.op \in LoadOps /\ out.status = "ok") =>
          \A p \in DOMAIN acct.metadata_by_period :
              Abs(acct.metadata_by_period[p].Beginning
                  + SumAmount(RowsOfMonth(acct.data, p))
                  - acct.metadata_by_period[p].Ending) <= Tol
    /\ RangeResolved =>
         \A range \in {LastRange} :
           (/\ \A p \in range : p \in DOMAIN disk /\ disk[p].present
            /\ \E p \in range : Abs(MonthOff(p)) > Tol)
           => out.status = "ValueError"

\* a ledger was returned with a month one cent over and a month one cent
\* under, one of them with a transaction
C3_Witness ==
    /\ out.op = "construct" /\ out.status = "ok"
    /\ \E p \in LastRange : MonthOff(p) = 1
    /\ \E p \in LastRange : MonthOff(p) = -1
    /\ acct.data # <<>>

\* Directories written by an extraction stage that reconciled each month:
\* the first month begins at 0, each month ends at Beginning + sum(Amount)
\* and the next one begins there.
DiskPeriodSeq == << <<2023, 12>>, <<2024, 1>>, <<2024, 2>> >>

RECURSIVE SumTagged(_, _)
SumTagged(s, P) ==
    IF s = <<>> THEN 0
    ELSE (IF s[1][1] \in P THEN s[1][3] ELSE 0) + SumTagged(Tail(s), P)

ChainMetas(s) ==
    [p \in DiskPeriods |->
        [beg |-> SumTagged(s, {q \in DiskPeriods : PeriodLt(q, p)}),
         end |-> SumTagged(s, {q \in DiskPeriods : PeriodLt(q, p) \/ q = p})]]

AcctDisks ==
    {MkDisk(DiskPeriods, ChainMetas(s), s) :
        s \in {t \in TaggedRows(Dates, MaxRows) :
                 \A i \in 1..Len(t) : t[i][3] > 0}}

Init ==
    /\ disk \in AcctDisks
    /\ acct = NoAcct
    /\ out = NoOut
    /\ batch = NoBatch
    /\ xfill = NoFill
    /\ arg = NoArg
    /\ ret = NoRet

Next ==
    \/ \E od \in OpenDates, s \in DiskPeriods \cup {NoPeriod},
          e \in DiskPeriods \cup {NoPeriod} : Construct(od, s, e)
    \/ \E s \in DiskPeriods \cup {NoPeriod},
          e \in DiskPeriods \cup {NoPeriod} : Reload(s, e)
    \/ \E d \in QueryDates : GetBalance(d)
    \/ \E s \in QueryDates, e \in QueryDates : GetTransactions(s, e)

Spec == Init /\ [][Next]_vars

(***************************************************************************)
(* Claims about the queries on the ledger.                                 *)
(***************************************************************************)
\* the rows of the ledger dated on or before d
RowsUpTo(data, d) == {i \in 1..Len(data) : data[i].Date <= d}

\* C9: get_balance(date) on a ledger that holds rows returns 0 without a
\* warning before the first transaction date, the last row's balance with
\* exactly one warning after the last transaction date, and otherwise,
\* without a warning, the balance of the last row dated on or before date.
C9_GetBalance ==
    (out.op = "get_balance" /\ acct.data # <<>>) =>
      \A first \in {DateMin(acct.data)} : \A last \in {DateMax(acct.data)} :
        /\ out.status = "ok"
        /\ out.d1 < first => (out.value = 0 /\ out.warnings = 0)
        /\ out.d1 > last =>
              (out.value = acct.data[Len(acct.data)].Balance
               /\ out.warnings = 1)
        /\ (first <= out.d1 /\ out.d1 <= last) =>
              /\ out.warnings = 0
              /\ \E i \in RowsUpTo(acct.data, out.d1) :
                    /\ \A j \in RowsUpTo(acct.data, out.d1) : j <= i
                    /\ out.value = acct.data[i].Balance

\* C10: get_transactions(start, end) with start <= end returns exactly the
\* rows dated in [start, end] and does not raise; on a ledger that holds
\* rows it warns when start is before the first transaction date or end is
\* after the last, and does not warn when the range lies inside the data.
C10_GetTransactions ==
    (out.op = "get_transactions" /\ out.d1 <= out.d2) =>
        /\ out.status = "ok"
        /\ out.rows = SelectSeq(acct.data,
                LAMBDA r : out.d1 <= r.Date /\ r.Date <= out.d2)
        /\ acct.data # <<>> =>
            \A first \in {DateMin(acct.data)} : \A last \in {DateMax(acct.data)} :
              /\ (out.d1 < first \/ out.d2 > last) => out.warnings >= 1
              /\ (first <= out.d1 /\ out.d2 <= last) => out.warnings = 0

(***************************************************************************)
(* Claim C26: the Account object after any calls                           *)
(***************************************************************************)
\* C26: a constructed Account has min_date and max_date equal to the
\* least and the greatest Date of its data, and metadata_by_period holds
\* exactly the months of the window its data was loaded for
C26_StateConsistent ==
    acct.exists =>
        /\ acct.min_date = DateMin(acct.data)
        /\ acct.max_date = DateMax(acct.data)
        /\ DOMAIN acct.metadata_by_period =
              SeqToSet(month_iter(acct.metadata.start_period[1],
                                  acct.metadata.start_period[2],
                                  acct.metadata.end_period))
        /\ \A i \in 1..Len(acct.data) :
              <<acct.data[i].StatementYear, acct.data[i].StatementMonth>>
                 \in DOMAIN acct.metadata_by_period

(***************************************************************************)
(* Claim C24: the tolerances over several months                           *)
(***************************************************************************)
\* C24: on a ledger that load_data accepted, the Balance of the last row
\* is within one cent of the Ending balance of the last loaded month
C24_NoDrift ==
    (out.op \in LoadOps /\ out.status = "ok" /\ acct.data # <<>>)
        => Abs(acct.data[Len(acct.data)].Balance - acct.metadata.Ending) <= Tol

(***************************************************************************)
(* 3_extract_data: the batch drivers process_apple, process_chase,         *)
(* process_discover, process_pnc and process_sofi.  A statement file is a  *)
(* number; its text either parses ("ok") or makes its processing raise     *)
(* ("bad").  statements_db.csv is the sequence of its rows, each row the   *)
(* raw_documents_path it records.                                          *)
(***************************************************************************)
Institutions == {"apple", "chase", "discover", "pnc", "sofi"}
Files == 1..MaxFiles

\* process_apple wraps each file in try / except Exception and logs; the
\* other drivers call the per-file function bare
CatchesPerFile(inst) == inst = "apple"

\* the drivers iterate over files minus the recorded raw_documents_path;
\* process_sofi computes that set and then iterates over all the files
SkipsProcessed(inst) == inst # "sofi"

\* drop_duplicates() over the concatenation of the rows read from
\* statements_db.csv (raw_documents_path a str) and the new rows (a Path):
\* a row is dropped when an equal row, of the same type, precedes it
RECURSIVE drop_duplicates(_)
drop_duplicates(rows) ==
    IF rows = <<>> THEN <<>>
    ELSE LET front == drop_duplicates(SubSeq(rows, 1, Len(rows) - 1))
             last == rows[Len(rows)]
         IN IF \E i \in 1..Len(front) : front[i] = last
            THEN front ELSE Append(front, last)

\* to_csv: every cell is written as text
to_csv(rows) == [i \in 1..Len(rows) |-> rows[i].raw]

\* read_csv of statements_db.csv
read_csv(db) == [i \in 1..Len(db) |-> [raw |-> db[i], type |-> "str"]]

Recorded(db) == {db[i] : i \in 1..Len(db)}

\* the driver up to its for loop: load_statements_db, find_pdfs and the
\* list of files to process
StartRun ==
    /\ batch.inst # "none"
    /\ batch.pc = "idle"
    /\ batch.runs < MaxRuns
    /\ LET files == DOMAIN batch.pdfs
           unprocessed_files == files \ Recorded(batch.db)
       IN batch' = [batch EXCEPT
             !.pc = "running",
             !.todo = IF SkipsProcessed(batch.inst)
                      THEN unprocessed_files ELSE files,
             !.start_todo = IF SkipsProcessed(batch.inst)
                            THEN unprocessed_files ELSE files,
             !.start_db = Recorded(batch.db),
             !.new_statements = <<>>,
             !.attempted = {},
             !.prev_failed = batch.failed,
             !.failed = {},
             !.wrote_db = FALSE,
             !.aborted = FALSE]
    /\ UNCHANGED <<disk, acct, out, xfill, arg, ret>>

\* one turn of the for loop, on a file whose processing returns: the
\* month's outputs are written and its rows join new_statements
ProcessFileOk(f) ==
    /\ batch.pc = "running"
    /\ f \in batch.todo
    /\ batch.pdfs[f] = "ok"
    /\ batch' = [batch EXCEPT
          !.todo = @ \ {f},
          !.attempted = @ \cup {f},
          !.persisted = @ \cup {f},
          !.new_statements = Append(@, [raw |-> f, type |-> "Path"])]
    /\ UNCHANGED <<disk, acct, out, xfill, arg, ret>>

\* one turn of the for loop, on a file whose processing raises: logged
\* and skipped by process_apple, the end of the run in the other drivers,
\* which never reach the code that writes statements_db.csv
ProcessFileRaises(f) ==
    /\ batch.pc = "running"
    /\ f \in batch.todo
    /\ batch.pdfs[f] = "bad"
    /\ batch' = IF CatchesPerFile(batch.inst)
                THEN [batch EXCEPT
                        !.todo = @ \ {f},
                        !.attempted = @ \cup {f},
                        !.failed = @ \cup {f}]
                ELSE [batch EXCEPT
                        !.pc = "idle",
                        !.attempted = @ \cup {f},
                        !.failed = @ \cup {f},
                        !.aborted = TRUE,
                        !.runs = @ + 1]
    /\ UNCHANGED <<disk, acct, out, xfill, arg, ret>>

\* after the for loop: concat, drop_duplicates, to_csv
FinishRun ==
    /\ batch.pc = "running"
    /\ batch.todo = {}
    /\ batch' = [batch EXCEPT
          !.pc = "idle",
          !.db = to_csv(drop_duplicates(read_csv(batch.db)
                                        \o batch.new_statements)),
          !.wrote_db = TRUE,
          !.runs = @ + 1]
    /\ UNCHANGED <<disk, acct, out, xfill, arg, ret>>

InitBatch ==
    /\ disk = [p \in DiskPeriods |-> NoMonth]
    /\ acct = NoAcct
    /\ out = NoOut
    /\ xfill = NoFill
    /\ arg = NoArg
    /\ ret = NoRet
    /\ \E inst \in Institutions, present \in SUBSET Files :
         \E pdfs \in [present -> {"ok", "bad"}] :
            batch = [NoBatch EXCEPT !.inst = inst, !.pdfs = pdfs]

NextBatch ==
    \/ StartRun
    \/ \E f \in Files : ProcessFileOk(f)
    \/ \E f \in Files : ProcessFileRaises(f)
    \/ FinishRun

SpecBatch == InitBatch /\ [][NextBatch]_vars

(***************************************************************************)
(* Claims C4 - C6: the batch drivers                                       *)
(***************************************************************************)
AllFiles == DOMAIN batch.pdfs

\* C4: a run of a driver that starts with every statement file recorded in
\* statements_db.csv processes no file and writes no per-month output
C4_Idempotent ==
    (batch.runs >= 1 /\ AllFiles # {} /\ AllFiles \subseteq batch.start_db)
        => (batch.attempted = {} /\ batch.new_statements = <<>>)

\* C5: a run of a driver ends with every file it had to process attempted
\* and statements_db.csv written, whatever file failed on the way
C5_FailureIsolated ==
    (batch.runs >= 1 /\ batch.pc = "idle")
        => (batch.attempted = batch.start_todo /\ batch.wrote_db)

\* C6: a file that failed in the previous run is not recorded and is among
\* the files of this run; a recorded file is not among them
C6_RetryDiscipline ==
    batch.pc = "running"
        => /\ batch.prev_failed \cap batch.start_db = {}
           /\ batch.prev_failed \subseteq batch.start_todo
           /\ batch.start_todo \cap batch.start_db = {}

(***************************************************************************)
(* Claim C25: what a run leaves recorded                                   *)
(***************************************************************************)
\* C25: when a run of a driver has ended, every statement file whose
\* outputs were written is recorded in statements_db.csv
C25_PersistedIsRecorded ==
    (batch.runs >= 1 /\ batch.pc = "idle")
        => batch.persisted \subseteq Recorded(batch.db)

(***************************************************************************)
(* Claim C19: statements_db.csv across runs                                *)
(***************************************************************************)
\* C19: after a run of a driver every row that statements_db.csv held
\* before the run is still in it, and the file the run wrote has no two
\* equal rows
C19_LedgerAppendOnlyNoDuplicates ==
    (batch.runs >= 1 /\ batch.pc = "idle")
        => /\ batch.start_db \subseteq Recorded(batch.db)
           /\ batch.wrote_db =>
                \A i \in 1..Len(batch.db) : \A j \in 1..Len(batch.db) :
                    i # j => batch.db[i] # batch.db[j]

(***************************************************************************)
(* chase_csv.py, discover_csv.py: a month's transactions taken from a bulk *)
(* CSV export.  A line of the export is a date and an amount; Description  *)
(* holds the line's number in the file.                                    *)
(***************************************************************************)
CsvDates == {1, 2, 3, 4}
CsvLines == [Date : CsvDates, Amount : Amts]
CsvInstitutions == {"chase", "discover"}

read_csv_export(csv) ==
    [i \in 1..Len(csv) |->
        [Date |-> csv[i].Date, Amount |-> csv[i].Amount, Description |-> i]]

\* commons.sort_df_by_date: sort_values([Date, original_index],
\* ascending=[True, False]), then the index is reset
sort_df_by_date(df) ==
    LET before(j, i) ==
            \/ df[j].Date < df[i].Date
            \/ (df[j].Date = df[i].Date /\ j > i)
        rank(i) == 1 + Cardinality({j \in 1..Len(df) : before(j, i)})
    IN [k \in 1..Len(df) |-> df[CHOOSE i \in 1..Len(df) : rank(i) = k]]

\* load_chase_csv: read_csv, then process_financial_df, which ends with
\* sort_df_by_date
load_chase_csv(csv) == sort_df_by_date(read_csv_export(csv))

\* load_discover_csv: the same, then Amount = -Amount for account 4589
load_discover_csv(csv) ==
    LET df == sort_df_by_date(read_csv_export(csv))
    IN [i \in 1..Len(df) |-> [df[i] EXCEPT !.Amount = -@]]

InWindow(df, metadata) ==
    SelectSeq(df, LAMBDA r : /\ r.Date >= metadata.beginning_date
                              /\ r.Date <= metadata.ending_date)

\* df["Amount"].cumsum() + metadata["Beginning balance"]
WithBalance(df, beginning) ==
    [i \in 1..Len(df) |->
        [Date |-> df[i].Date, Amount |-> df[i].Amount,
         Description |-> df[i].Description,
         Balance |-> SumAmount(SubSeq(df, 1, i)) + beginning]]

\* (mutant) the running balance starts at zero
extract_chase_from_zero(df, metadata) ==
    IF Lt(metadata.beginning_date, DateMin(df))
       \/ Lt(DateMax(df), metadata.ending_date)
    THEN [isNone |-> TRUE, rows |-> <<>>, success |-> FALSE]
    ELSE [isNone |-> FALSE, rows |-> WithBalance(InWindow(df, metadata), 0),
          success |-> InWindow(df, metadata) # <<>>]

\* extract_chase_data_from_csv_using_metadata: (df, success), df being
\* None when the export does not reach both ends of the window
extract_chase_data_from_csv_using_metadata(df, metadata) ==
    IF Lt(metadata.beginning_date, DateMin(df))
       \/ Lt(DateMax(df), metadata.ending_date)
    THEN [isNone |-> TRUE, rows |-> <<>>, success |-> FALSE]
    ELSE IF Len(InWindow(df, metadata)) > 0
         THEN [isNone |-> FALSE,
               rows |-> WithBalance(InWindow(df, metadata), metadata.Beginning),
               success |-> TRUE]
         ELSE [isNone |-> FALSE, rows |-> <<>>, success |-> FALSE]

\* extract_discover_data_from_csv_using_metadata
extract_discover_data_from_csv_using_metadata(df, metadata) ==
    IF Lt(metadata.beginning_date, DateMin(df))
       \/ Lt(DateMax(df), metadata.ending_date)
    THEN [isNone |-> TRUE, rows |-> <<>>, success |-> FALSE]
    ELSE IF Len(InWindow(df, metadata)) > 0
         THEN [isNone |-> FALSE,
               rows |-> WithBalance(InWindow(df, metadata), metadata.Beginning),
               success |-> TRUE]
         ELSE [isNone |-> FALSE, rows |-> <<>>, success |-> FALSE]

\* load_chase_csv / load_discover_csv on the export
LoadCsv ==
    /\ xfill.pc = "file"
    /\ xfill' = [xfill EXCEPT
          !.pc = "loaded",
          !.df = IF xfill.inst = "chase" THEN load_chase_csv(xfill.csv)
                 ELSE load_discover_csv(xfill.csv)]
    /\ UNCHANGED <<disk, acct, out, batch, arg, ret>>

\* the cross-filler called with the loaded export and a month's metadata
CrossFill(beginning_date, ending_date, beginning) ==
    /\ xfill.pc \in {"loaded", "done"}
    /\ beginning_date <= ending_date
    /\ \E metadata \in {[beginning_date |-> beginning_date,
                         ending_date |-> ending_date,
                         Beginning |-> beginning]} :
       \E r \in {IF xfill.inst = "chase"
                 THEN extract_chase_data_from_csv_using_metadata(xfill.df, metadata)
                 ELSE extract_discover_data_from_csv_using_metadata(xfill.df, metadata)} :
          xfill' = [xfill EXCEPT
             !.pc = "done",
             !.beginning_date = beginning_date,
             !.ending_date = ending_date,
             !.Beginning = beginning,
             !.isNone = r.isNone,
             !.rows = r.rows,
             !.success = r.success]
    /\ UNCHANGED <<disk, acct, out, batch, arg, ret>>

InitCsv ==
    /\ disk = [p \in DiskPeriods |-> NoMonth]
    /\ acct = NoAcct
    /\ out = NoOut
    /\ batch = NoBatch
    /\ arg = NoArg
    /\ ret = NoRet
    /\ \E inst \in CsvInstitutions, csv \in SeqsUpTo(CsvLines, MaxCsvRows) :
          xfill = [NoFill EXCEPT !.inst = inst, !.pc = "file", !.csv = csv]

NextCsv ==
    \/ LoadCsv
    \/ \E b \in CsvDates, e \in CsvDates, beginning \in Cents :
          CrossFill(b, e, beginning)

SpecCsv == InitCsv /\ [][NextCsv]_vars

(***************************************************************************)
(* Claims C7, C8: the cross-filler                                         *)
(***************************************************************************)
\* the export's [min date, max date] contains the window
Covers ==
    /\ xfill.df # <<>>
    /\ DateMin(xfill.df) <= xfill.beginning_date
    /\ DateMax(xfill.df) >= xfill.ending_date

RowsInWindow ==
    {i \in 1..Len(xfill.df) : /\ xfill.df[i].Date >= xfill.beginning_date
                              /\ xfill.df[i].Date <= xfill.ending_date}

\* the returned rows are the export's rows inside the window, in the
\* export's order, each with Balance = Beginning + the amounts so far
ExactRows ==
    /\ Len(xfill.rows) = Cardinality(RowsInWindow)
    /\ \A k \in 1..Len(xfill.rows) :
         \E i \in RowsInWindow :
            /\ Cardinality({j \in RowsInWindow : j <= i}) = k
            /\ xfill.rows[k].Date = xfill.df[i].Date
            /\ xfill.rows[k].Amount = xfill.df[i].Amount
            /\ xfill.rows[k].Description = xfill.df[i].Description
            /\ xfill.rows[k].Balance =
                 xfill.Beginning + SumAmount(SubSeq(xfill.rows, 1, k))

\* C7: on an export that does not cover the window the cross-filler
\* returns success = False with an empty table of rows
C7_GapGivesEmptyTable ==
    (xfill.pc = "done" /\ ~Covers)
        => (~xfill.success /\ ~xfill.isNone /\ xfill.rows = <<>>)

\* C8 as stated: on an export that covers the window the cross-filler
\* returns success = True with exactly the rows inside the window and
\* their running balances
C8_CoveredSucceeds ==
    (xfill.pc = "done" /\ Covers)
        => (xfill.success /\ ~xfill.isNone /\ ExactRows)

\* C8, amended: on an export that covers the window and has a row inside
\* it the cross-filler returns success = True with exactly the rows inside
\* the window and their running balances; with no row inside the window it
\* returns success = False and an empty table
C8_CoveredAndNonEmptySucceeds ==
    (xfill.pc = "done" /\ Covers)
        => /\ ~xfill.isNone
           /\ ExactRows
           /\ xfill.success <=> RowsInWindow # {}

C8_Witness ==
    /\ xfill.pc = "done" /\ Covers
    /\ xfill.success
    /\ Len(xfill.rows) = 2
    /\ xfill.rows[1].Amount # xfill.rows[2].Amount
    /\ xfill.Beginning = 2

(***************************************************************************)
(* Claim C23: the order sort_df_by_date leaves                             *)
(***************************************************************************)
\* C23: the loaded export is in ascending order of Date, and rows of one
\* date are in the order they have in the file
C23_SortKeepsFileOrder ==
    xfill.pc \in {"loaded", "done"} =>
        \A i \in 1..Len(xfill.df) : \A j \in 1..Len(xfill.df) :
            i < j =>
              /\ xfill.df[i].Date <= xfill.df[j].Date
              /\ xfill.df[i].Date = xfill.df[j].Date
                    => xfill.df[i].Description < xfill.df[j].Description

(***************************************************************************)
(* The assembled ledger: load_data over reconciled directories whose       *)
(* transactions.csv may carry a Balance column of its own.                 *)
(***************************************************************************)
\* what the Balance column of a transactions.csv holds: the month's own
\* running balance, as the cross-fillers write it, or figures that are off
BalanceColumns == {"running", "off"}

WithBalanceColumn(d, mode) ==
    [p \in DOMAIN d |->
        [d[p] EXCEPT !.rows =
            [i \in 1..Len(d[p].rows) |->
                [Date |-> d[p].rows[i].Date,
                 Amount |-> d[p].rows[i].Amount,
                 Description |-> d[p].rows[i].Description,
                 Balance |-> d[p].beg + SumAmount(SubSeq(d[p].rows, 1, i))
                             + (IF mode = "off" THEN 5 ELSE 0)]]]]

LedgerDates == {1, 2}

LedgerDisks ==
    {WithBalanceColumn(MkDisk(DiskPeriods, ChainMetas(s), s), mode) :
        s \in TaggedRows(LedgerDates, MaxRows), mode \in BalanceColumns}

InitLedger ==
    /\ disk \in LedgerDisks
    /\ acct = NoAcct
    /\ out = NoOut
    /\ batch = NoBatch
    /\ xfill = NoFill
    /\ arg = NoArg
    /\ ret = NoRet

\* Account(acct_folder), as extract_transactions.py builds it, then any
\* load_data(start, end)
NextLedger ==
    \/ \E od \in OpenDates : Construct(od, NoPeriod, NoPeriod)
    \/ \E s \in DiskPeriods \cup {NoPeriod},
          e \in DiskPeriods \cup {NoPeriod} : Reload(s, e)

SpecLedger == InitLedger /\ [][NextLedger]_vars

(***************************************************************************)
(* Claims C11, C12: the order and the balances of the ledger               *)
(***************************************************************************)
Loaded == out.op \in LoadOps /\ out.status = "ok"

SameKey(a, b) ==
    /\ a.Date = b.Date
    /\ a.StatementYear = b.StatementYear
    /\ a.StatementMonth = b.StatementMonth

KeyBefore(a, b) ==
    \/ a.Date < b.Date
    \/ a.Date = b.Date /\ a.StatementYear < b.StatementYear
    \/ a.Date = b.Date /\ a.StatementYear = b.StatementYear
         /\ a.StatementMonth < b.StatementMonth

\* C11: a loaded ledger is in ascending (Date, StatementYear,
\* StatementMonth) order, rows with equal keys are in the order of their
\* transactions file, and every row of every loaded month is in it once,
\* with nothing else
C11_StableOrder ==
    Loaded =>
      \A data \in {acct.data} : \A range \in {LastRange} :
        /\ \A i \in 1..Len(data) : \A j \in 1..Len(data) :
             i < j => /\ ~KeyBefore(data[j], data[i])
                      /\ SameKey(data[i], data[j])
                           => data[i].Description < data[j].Description
        /\ \A i \in 1..Len(data) :
             <<data[i].StatementYear, data[i].StatementMonth>> \in range
        /\ \A p \in range :
             /\ Len(RowsOfMonth(data, p)) = Len(disk[p].rows)
             /\ \A k \in 1..Len(disk[p].rows) :
                  \E i \in 1..Len(data) :
                     /\ data[i].StatementYear = p[1]
                     /\ data[i].StatementMonth = p[2]
                     /\ data[i].Description = k
                     /\ data[i].Date = disk[p].rows[k].Date
                     /\ data[i].Amount = disk[p].rows[k].Amount

\* a ledger of two rows in which the row of the later month comes first
C11_Witness ==
    /\ Loaded
    /\ Len(acct.data) = 2
    /\ acct.data[1].StatementYear = 2024 /\ acct.data[2].StatementYear = 2023
    /\ acct.data[1].Amount # acct.data[2].Amount

\* C12: the Balance of the i-th row of a loaded ledger is the first loaded
\* month's Beginning balance plus the Amounts of rows 1..i, whatever the
\* Balance column of the transactions files holds
C12_RunningBalance ==
    Loaded =>
      \A data \in {acct.data} :
        \A i \in 1..Len(data) :
          data[i].Balance =
             disk[out.start_dt].beg + SumAmount(SubSeq(data, 1, i))

\* a ledger that begins at a balance other than zero and holds a row whose
\* Balance is not the one in the Balance column of its file
C12_Witness ==
    /\ Loaded
    /\ disk[out.start_dt].beg # 0
    /\ \E i \in 1..Len(acct.data) :
         \E p \in {<<acct.data[i].StatementYear, acct.data[i].StatementMonth>>} :
            disk[p].rows[acct.data[i].Description].Balance # acct.data[i].Balance

(***************************************************************************)
(* account.py: discovery.  A file found by rglob is its name (type), the   *)
(* names of its two parent directories, and the place under the account    *)
(* root where that <year>/<month> directory is.                            *)
(***************************************************************************)
YearNames == {"2024"}
MonthNames == {"03", "3"}
FileTypes == {"metadata", "transactions"}
TreeFiles == [year : YearNames, month : MonthNames, type : FileTypes,
              at : 1..MaxCopies]

\* the for loop of build_account_file_index over the files still to visit
RECURSIVE ScanFiles(_, _)
ScanFiles(files, index) ==
    IF files = {} THEN [raised |-> "", index |-> index]
    ELSE LET p == CHOOSE f \in files : TRUE
             key == <<p.year, p.month>>
             month_bucket == IF key \in DOMAIN index THEN index[key] ELSE {}
         IN IF p.type \in month_bucket
            THEN [raised |-> "DuplicateFileError", index |-> index]
            ELSE ScanFiles(files \ {p},
                   [k \in DOMAIN index \cup {key} |->
                       IF k = key THEN month_bucket \cup {p.type}
                       ELSE index[k]])

\* build_account_file_index: (year, month) -> the file types found there
build_account_file_index(tree) == ScanFiles(tree, <<>>)

\* (mutant) no check of the pair of files
validate_nothing(index) == ""

\* validate_account_file_index: what it raises
validate_account_file_index(index) ==
    IF \E key \in DOMAIN index : FileTypes \ index[key] # {}
    THEN "FileNotFoundError" ELSE ""

\* str(int(y)) and str(int(m)).zfill(2)
normalize_key(key) == <<key[1], IF key[2] = "3" THEN "03" ELSE key[2]>>

\* the dict comprehension that builds nindex: for each normalized key, the
\* directory whose files it holds; of two directories with one normalized
\* key the one visited last stays, and the order of the visit is rglob's
nindexes(index) ==
    LET keys == {normalize_key(k) : k \in DOMAIN index}
    IN {f \in [keys -> DOMAIN index] : \A k \in keys : normalize_key(f[k]) = k}

\* the first lines of load_data: build the index, refuse an empty one,
\* validate it, normalize it
Discover ==
    /\ arg.fn = "discover"
    /\ ret = NoRet
    /\ \E b \in {build_account_file_index(arg.tree)} :
       \E raised \in {IF b.raised # "" THEN b.raised
                      ELSE IF DOMAIN b.index = {} THEN "FileNotFoundError"
                      ELSE validate_account_file_index(b.index)} :
       \E nindex_ \in IF raised = "" THEN nindexes(b.index) ELSE {<<>>} :
         ret' = [fn |-> "discover",
                 index |-> b.index,
                 raised |-> raised,
                 nindex |-> nindex_]
    /\ UNCHANGED <<disk, acct, out, batch, xfill, arg>>

InitIndex ==
    /\ disk = [p \in DiskPeriods |-> NoMonth]
    /\ acct = NoAcct
    /\ out = NoOut
    /\ batch = NoBatch
    /\ xfill = NoFill
    /\ \E tree \in SUBSET TreeFiles : arg = [fn |-> "discover", tree |-> tree]
    /\ ret = NoRet

NextIndex == Discover

SpecIndex == InitIndex /\ [][NextIndex]_vars

(***************************************************************************)
(* Claim C13: discovery                                                    *)
(***************************************************************************)
TreeKeys == {<<f.year, f.month>> : f \in arg.tree}
FilesAt(key, type) ==
    {f \in arg.tree : f.year = key[1] /\ f.month = key[2] /\ f.type = type}

\* C13: discovery returns only when every (year, month) key holds one
\* metadata.json and one transactions.csv; two files of one type under one
\* key raise DuplicateFileError, and otherwise a key with one of the two
\* types makes the load raise
C13_ExactlyOnePair ==
    ret.fn = "discover" =>
      /\ ret.raised = "" =>
           \A key \in TreeKeys : \A type \in FileTypes :
               Cardinality(FilesAt(key, type)) = 1
      /\ (\E key \in TreeKeys : \E type \in FileTypes :
              Cardinality(FilesAt(key, type)) > 1)
           => ret.raised = "DuplicateFileError"
      /\ (/\ \A key \in TreeKeys : \A type \in FileTypes :
                Cardinality(FilesAt(key, type)) <= 1
          /\ \E key \in TreeKeys : \E type \in FileTypes : FilesAt(key, type) = {})
           => ret.raised = "FileNotFoundError"

\* a complete month beside a month that has its metadata.json only
C13_Witness ==
    /\ ret.fn = "discover"
    /\ ret.raised = "FileNotFoundError"
    /\ Cardinality(TreeKeys) = 2
    /\ Cardinality(arg.tree) = 3

(***************************************************************************)
(* Claim C30: two directories of one month                                 *)
(***************************************************************************)
Collision ==
    \E k1 \in TreeKeys : \E k2 \in TreeKeys :
        k1 # k2 /\ normalize_key(k1) = normalize_key(k2)

\* C30: when two month directories have the same (year, month) after the
\* normalization, the load raises, with DuplicateFileError when every
\* directory holds its pair of files, and no directory's pair replaces
\* another's in the normalized index
C30_NoSilentMerge ==
    (ret.fn = "discover" /\ Collision)
        => /\ ret.raised # ""
           /\ (\A key \in TreeKeys : \A type \in FileTypes :
                  Cardinality(FilesAt(key, type)) = 1)
                 => ret.raised = "DuplicateFileError"

(***************************************************************************)
(* 3_extract_data: the metadata scans.  A line of a statement's text is    *)
(* the field whose pattern it matches, if any, and the amount written on   *)
(* it.  "beginning" and "ending" stand for the fields of an institution's  *)
(* fields list (Apple: previous_total_balance and total_balance),          *)
(* "monthly" for Apple's previous_monthly_balance.                         *)
(***************************************************************************)
Matches == {"beginning", "ending", "monthly", "none"}
LineValues == {1, 2}
TextLines == [match : Matches, value : LineValues]
Scanners == {"apple", "chase_checking", "chase_sapphire", "discover_card",
             "discover_savings", "sofi"}

Put(md, field, value) ==
    [f \in DOMAIN md \cup {field} |-> IF f = field THEN value ELSE md[f]]

\* for line in lines: a field is set when a line matches it and
\* field_name not in metadata; look = 1 when the amount is read from the
\* following line, which must exist
RECURSIVE ScanGuarded(_, _, _, _)
ScanGuarded(lines, i, md, look) ==
    IF i > Len(lines) THEN [raised |-> "", metadata |-> md]
    ELSE IF lines[i].match \in {"beginning", "ending"}
            /\ lines[i].match \notin DOMAIN md
    THEN IF i + look > Len(lines)
         THEN [raised |-> "ValueError", metadata |-> md]
         ELSE ScanGuarded(lines, i + 1,
                          Put(md, lines[i].match, lines[i + look].value), look)
    ELSE ScanGuarded(lines, i + 1, md, look)

\* required_fields - found_fields, then the sign of the card statements
Required(r, sign) ==
    IF r.raised # "" THEN r
    ELSE IF {"beginning", "ending"} \ DOMAIN r.metadata # {}
    THEN [raised |-> "ValueError", metadata |-> r.metadata]
    ELSE [raised |-> "",
          metadata |-> [f \in DOMAIN r.metadata |-> sign * r.metadata[f]]]

extract_chase_checking_metadata(lines) ==
    Required(ScanGuarded(lines, 1, <<>>, 0), 1)

extract_chase_sapphire_metadata(lines) ==
    Required(ScanGuarded(lines, 1, <<>>, 0), -1)

extract_discover_credit_card_metadata(lines) ==
    Required(ScanGuarded(lines, 1, <<>>, 0), -1)

extract_discover_bank_metadata(lines) ==
    Required(ScanGuarded(lines, 1, <<>>, 0), 1)

\* sofi.extract_metadata: the amounts are on the line after the match
sofi_extract_metadata(lines) ==
    Required(ScanGuarded(lines, 1, <<>>, 1), 1)

\* apple.extract_metadata's loop: every matching row assigns its field;
\* the date is read from rows[n + 1]
RECURSIVE ScanRows(_, _, _)
ScanRows(rows, n, md) ==
    IF n > Len(rows) THEN [raised |-> "", metadata |-> md]
    ELSE IF rows[n].match # "none"
    THEN IF n + 1 > Len(rows)
         THEN [raised |-> "IndexError", metadata |-> md]
         ELSE ScanRows(rows, n + 1, Put(md, rows[n].match, rows[n].value))
    ELSE ScanRows(rows, n + 1, md)

\* initial_metadata_check: the three keys, and previous_monthly_balance
\* equal to previous_total_balance
initial_metadata_check(r) ==
    IF r.raised # "" THEN r
    ELSE IF DOMAIN r.metadata # {"beginning", "ending", "monthly"}
    THEN [raised |-> "ValueError", metadata |-> r.metadata]
    ELSE IF r.metadata["monthly"] # r.metadata["beginning"]
            /\ (r.metadata["monthly"] # 0 \/ r.metadata["beginning"] >= 0)
    THEN [raised |-> "ValueError", metadata |-> r.metadata]
    ELSE r

apple_extract_metadata(text) == initial_metadata_check(ScanRows(text, 1, <<>>))

ScanText ==
    /\ arg.fn = "scan"
    /\ ret = NoRet
    /\ \E r \in {CASE arg.inst = "apple" -> apple_extract_metadata(arg.lines)
                   [] arg.inst = "chase_checking" ->
                        extract_chase_checking_metadata(arg.lines)
                   [] arg.inst = "chase_sapphire" ->
                        extract_chase_sapphire_metadata(arg.lines)
                   [] arg.inst = "discover_card" ->
                        extract_discover_credit_card_metadata(arg.lines)
                   [] arg.inst = "discover_savings" ->
                        extract_discover_bank_metadata(arg.lines)
                   [] arg.inst = "sofi" -> sofi_extract_metadata(arg.lines)} :
         ret' = [fn |-> "scan", raised |-> r.raised, metadata |-> r.metadata]
    /\ UNCHANGED <<disk, acct, out, batch, xfill, arg>>

InitScan ==
    /\ disk = [p \in DiskPeriods |-> NoMonth]
    /\ acct = NoAcct
    /\ out = NoOut
    /\ batch = NoBatch
    /\ xfill = NoFill
    /\ \E inst \in Scanners, lines \in SeqsUpTo(TextLines, MaxLines) :
          \* previous_monthly_balance is a pattern of Apple's scan only
          /\ inst # "apple" => \A i \in 1..Len(lines) : lines[i].match # "monthly"
          /\ arg = [fn |-> "scan", inst |-> inst, lines |-> lines]
    /\ ret = NoRet

NextScan == ScanText

SpecScan == InitScan /\ [][NextScan]_vars

(***************************************************************************)
(* Claim C14: the first match of a field wins                              *)
(***************************************************************************)
FirstMatch(field) ==
    CHOOSE i \in 1..Len(arg.lines) :
        /\ arg.lines[i].match = field
        /\ \A j \in 1..(i - 1) : arg.lines[j].match # field

\* the line the amount is read from, and the sign it is stored with
AmountLine(i) == IF arg.inst = "sofi" THEN i + 1 ELSE i
StoredSign == IF arg.inst \in {"chase_sapphire", "discover_card"} THEN -1 ELSE 1

LastBalance(rows, metadata) == SumAmount(rows) + metadata.Beginning

\* apple_data_process: abs(Balance.iloc[-1] - end_balance) > 0.01
apple_final_balance(rows, metadata) ==
    IF Abs(LastBalance(rows, metadata) - metadata.Ending) > Tol
    THEN "Exception" ELSE ""

\* pnc_data_process: abs(Balance.iloc[-1] - end_balance) > 0.01
pnc_final_balance(rows, metadata) ==
    IF Abs(LastBalance(rows, metadata) - metadata.Ending) > Tol
    THEN "Exception" ELSE ""

\* sofi.extract_data: Balance.iloc[-1] != Ending balance
sofi_final_balance(rows, metadata) ==
    IF LastBalance(rows, metadata) # metadata.Ending
    THEN "ValueError" ELSE ""

\* discover_savings_data_extract_from_pdf: Balance.iloc[-1] != Ending balance
discover_savings_final_balance(rows, metadata) ==
    IF LastBalance(rows, metadata) # metadata.Ending
    THEN "ValueError" ELSE ""

\* check_chase_data_with_metadata: Balance.iloc[-1] != Ending balance
check_chase_data_with_metadata(rows, metadata) ==
    IF LastBalance(rows, metadata) # metadata.Ending
    THEN "ValueError" ELSE ""

\* the last test of check_discover_data_with_metadata
discover_csv_final_balance(rows, metadata) ==
    IF LastBalance(rows, metadata) # metadata.Ending
    THEN "ValueError" ELSE ""

BalanceCheckers == {"apple", "pnc", "sofi", "discover_savings",
                    "chase_csv", "discover_csv"}

FinalBalance ==
    /\ arg.fn = "final_balance"
    /\ ret = NoRet
    /\ ret' = [fn |-> "final_balance",
               raised |->
                 CASE arg.inst = "apple" ->
                        apple_final_balance(arg.rows, arg.metadata)
                   [] arg.inst = "pnc" ->
                        pnc_final_balance(arg.rows, arg.metadata)
                   [] arg.inst = "sofi" ->
                        sofi_final_balance(arg.rows, arg.metadata)
                   [] arg.inst = "discover_savings" ->
                        discover_savings_final_balance(arg.rows, arg.metadata)
                   [] arg.inst = "chase_csv" ->
                        check_chase_data_with_metadata(arg.rows, arg.metadata)
                   [] arg.inst = "discover_csv" ->
                        discover_csv_final_balance(arg.rows, arg.metadata)]
    /\ UNCHANGED <<disk, acct, out, batch, xfill, arg>>

\* a statement table with at least one row, and the two extracted balances
InitBalance ==
    /\ disk = [p \in DiskPeriods |-> NoMonth]
    /\ acct = NoAcct
    /\ out = NoOut
    /\ batch = NoBatch
    /\ xfill = NoFill
    /\ \E inst \in BalanceCheckers, b \in Cents, e \in Cents,
          rows \in SeqsUpTo([Amount : Amts], MaxStmtRows) \ {<<>>} :
          arg = [fn |-> "final_balance", inst |-> inst, rows |-> rows,
                 metadata |-> [Beginning |-> b, Ending |-> e]]
    /\ ret = NoRet

NextBalance == FinalBalance

SpecBalance == InitBalance /\ [][NextBalance]_vars

(***************************************************************************)
(* Claim C15: one tolerance for every final-balance check                  *)
(***************************************************************************)
Deviation ==
    Abs(arg.metadata.Beginning + SumAmount(arg.rows) - arg.metadata.Ending)

\* C15: every final-balance check rejects the statement exactly when
\* |Beginning + sum of the rows - Ending| is more than one cent
C15_OneCentEverywhere ==
    ret.fn = "final_balance" => (ret.raised # "" <=> Deviation > Tol)

(***************************************************************************)
(* 3_extract_data: the reconciliation checkers.  A row of the table has    *)
(* its Amount, the Python type of the Amount and Date cells, and the       *)
(* section of the statement it belongs to: "credit" (PNC deposits, Apple   *)
(* payments, Discover payments and credits) or "debit" (PNC deductions,    *)
(* Apple transactions, Discover purchases).  The checked totals are        *)
(* metadata.credits and metadata.debits.                                   *)
(***************************************************************************)
Sections == {"credit", "debit"}
Checkers == {"apple", "pnc", "chase_csv", "discover_csv"}

SectionSum(rows, section) ==
    SumAmount(SelectSeq(rows, LAMBDA r : r.section = section))

\* apple.check_totals: works on df.dropna() and on the copies
\* df[df.table_type == ...]; the caller's df is not assigned to
check_totals(df, metadata) ==
    [data |-> df, metadata |-> metadata,
     raised |-> IF metadata.debits # SectionSum(df, "debit")
                   \/ -metadata.credits # SectionSum(df, "credit")
                THEN "Exception" ELSE ""]

\* pnc.check_files_aggregate: assigns data["Amount"] (Decimal) and
\* data["Date"] (year appended, then to_datetime) on the caller's table
\* before it compares the aggregates
check_files_aggregate(data, metadata) ==
    [data |-> [i \in 1..Len(data) |->
                 [data[i] EXCEPT !.amount_type = "Decimal",
                                 !.date_type = "datetime"]],
     metadata |-> metadata,
     raised |-> IF metadata.credits # SectionSum(data, "credit")
                   \/ metadata.debits # SectionSum(data, "debit")
                THEN "Exception" ELSE ""]

\* check_discover_data_with_metadata: the sums by Category, then the
\* final balance
check_discover_data_with_metadata(df, metadata) ==
    IF metadata.credits # SectionSum(df, "credit")
       \/ metadata.debits # SectionSum(df, "debit")
    THEN "ValueError"
    ELSE discover_csv_final_balance(df, metadata)

Check ==
    /\ arg.fn = "check"
    /\ ret = NoRet
    /\ \E r \in {CASE arg.inst = "apple" -> check_totals(arg.data, arg.metadata)
                   [] arg.inst = "pnc" ->
                        check_files_aggregate(arg.data, arg.metadata)
                   [] arg.inst = "chase_csv" ->
                        [data |-> arg.data, metadata |-> arg.metadata,
                         raised |-> check_chase_data_with_metadata(
                                        arg.data, arg.metadata)]
                   [] arg.inst = "discover_csv" ->
                        [data |-> arg.data, metadata |-> arg.metadata,
                         raised |-> check_discover_data_with_metadata(
                                        arg.data, arg.metadata)]} :
         ret' = [fn |-> "check", raised |-> r.raised, data |-> r.data,
                 metadata |-> r.metadata]
    /\ UNCHANGED <<disk, acct, out, batch, xfill, arg>>

\* the table as its parser hands it to the checker: PNC's cells are still
\* the strings of the statement, the others' are Decimal and datetime
InitCheck ==
    /\ disk = [p \in DiskPeriods |-> NoMonth]
    /\ acct = NoAcct
    /\ out = NoOut
    /\ batch = NoBatch
    /\ xfill = NoFill
    /\ \E inst \in Checkers, e \in Cents, c \in {-1, 0, 1}, d \in {-1, 0, 1},
          rows \in SeqsUpTo([Amount : Amts, section : Sections],
                            MaxStmtRows) \ {<<>>} :
          arg = [fn |-> "check", inst |-> inst,
                 data |-> [i \in 1..Len(rows) |->
                    [Amount |-> rows[i].Amount, section |-> rows[i].section,
                     amount_type |-> IF inst = "pnc" THEN "str" ELSE "Decimal",
                     date_type |-> IF inst = "pnc" THEN "str" ELSE "datetime"]],
                 metadata |-> [Beginning |-> 0, Ending |-> e,
                               credits |-> c, debits |-> d]]
    /\ ret = NoRet

NextCheck == Check

SpecCheck == InitCheck /\ [][NextCheck]_vars

(***************************************************************************)
(* Claim C16: the checkers change nothing                                  *)
(***************************************************************************)
\* C16: whether a checker returns or raises, the table and the metadata it
\* was given are as they were
C16_CheckersArePure ==
    ret.fn = "check" => (ret.data = arg.data /\ ret.metadata = arg.metadata)

(***************************************************************************)
(* chase_csv.py, chase_metadata.py, discover_csv.py: two consecutive       *)
(* months filled from one export.  Month n has the metadata.json of its    *)
(* statement and gets its rows from process_data; month n+1 has no         *)
(* statement and is made by statement_not_available from month n's         *)
(* metadata.  arg holds the export and month n's metadata, ret the         *)
(* transactions.csv of either month.                                       *)
(***************************************************************************)
\* date + relativedelta(months=1), a month being two days of CsvDates
relativedelta_months_1(date) == date + 2

\* chase_csv.process_data: the check comes before the test of success, so
\* a None or empty table fails inside the check
chase_process_data(df, metadata) ==
    LET r == extract_chase_data_from_csv_using_metadata(df, metadata)
    IN IF r.isNone THEN [raised |-> "TypeError", rows |-> <<>>]
       ELSE IF r.rows = <<>> THEN [raised |-> "IndexError", rows |-> <<>>]
       ELSE IF check_chase_data_with_metadata(r.rows, metadata) # ""
            THEN [raised |-> "ValueError", rows |-> <<>>]
       ELSE [raised |-> "", rows |-> r.rows]

\* discover_csv.process_data: the check runs on success only; the sums by
\* Category of the metadata are those of the rows, the final balance is
\* compared
discover_process_data(df, metadata) ==
    LET r == extract_discover_data_from_csv_using_metadata(df, metadata)
    IN IF ~r.success THEN [raised |-> "Exception", rows |-> <<>>]
       ELSE IF discover_csv_final_balance(r.rows, metadata) # ""
            THEN [raised |-> "ValueError", rows |-> <<>>]
       ELSE [raised |-> "", rows |-> r.rows]

\* process_no_statement_data: "if not success: if not data.empty" reads
\* .empty of None when the export does not cover the window
process_no_statement_data(r) ==
    IF r.success THEN [raised |-> "", rows |-> r.rows]
    ELSE IF r.isNone THEN [raised |-> "AttributeError", rows |-> <<>>]
    ELSE [raised |-> "", rows |-> <<>>]

\* statement_not_available: partial metadata from the previous month's,
\* the rows of the window, Ending balance from the last row
statement_not_available(inst, df, prev_metadata) ==
    LET partial_metadata ==
            [beginning_date |-> prev_metadata.ending_date,
             ending_date |-> relativedelta_months_1(prev_metadata.ending_date),
             Beginning |-> prev_metadata.Ending,
             Ending |-> prev_metadata.Ending]
        r == IF inst = "chase"
             THEN extract_chase_data_from_csv_using_metadata(df, partial_metadata)
             ELSE extract_discover_data_from_csv_using_metadata(df, partial_metadata)
        w == process_no_statement_data(r)
    IN [raised |-> w.raised, rows |-> w.rows,
        metadata |-> IF w.raised # "" \/ w.rows = <<>> THEN partial_metadata
                     ELSE [partial_metadata EXCEPT
                              !.Ending = w.rows[Len(w.rows)].Balance],
        \* metadata.json is saved without "Ending balance" before the
        \* export is loaded, and saved again at the end
        files |-> [metadata_json |-> IF w.raised # "" THEN "partial" ELSE "full",
                   transactions_csv |-> w.raised = ""]]

NoMonthFile == [pc |-> "todo", raised |-> "", rows |-> <<>>]

\* process_data for month n
ProcessData ==
    /\ arg.fn = "months"
    /\ ret.n.pc = "todo"
    /\ \E r \in {IF arg.inst = "chase"
                 THEN chase_process_data(arg.df, arg.metadata)
                 ELSE discover_process_data(arg.df, arg.metadata)} :
          ret' = [ret EXCEPT !.n = [pc |-> IF r.raised = "" THEN "written"
                                           ELSE "raised",
                                    raised |-> r.raised, rows |-> r.rows]]
    /\ UNCHANGED <<disk, acct, out, batch, xfill, arg>>

\* statement_not_available for month n+1
StatementNotAvailable ==
    /\ arg.fn = "months"
    /\ ret.n1.pc = "todo"
    /\ \E r \in {statement_not_available(arg.inst, arg.df, arg.metadata)} :
          ret' = [ret EXCEPT !.n1 = [pc |-> IF r.raised = "" THEN "written"
                                            ELSE "raised",
                                     raised |-> r.raised, rows |-> r.rows],
                             !.metadata = r.metadata,
                             !.files = r.files]
    /\ UNCHANGED <<disk, acct, out, batch, xfill, arg>>

\* one export, loaded, and the metadata.json of month n
InitMonths ==
    /\ disk = [p \in DiskPeriods |-> NoMonth]
    /\ acct = NoAcct
    /\ out = NoOut
    /\ batch = NoBatch
    /\ xfill = NoFill
    /\ \E inst \in CsvInstitutions, csv \in SeqsUpTo(CsvLines, MaxCsvRows),
          b \in CsvDates, e \in CsvDates, beginning \in {0, 1},
          s \in (0 - MaxCsvRows)..MaxCsvRows :
          /\ b <= e
          /\ arg = [fn |-> "months", inst |-> inst,
                    df |-> IF inst = "chase" THEN load_chase_csv(csv)
                           ELSE load_discover_csv(csv),
                    metadata |-> [beginning_date |-> b, ending_date |-> e,
                                  Beginning |-> beginning,
                                  Ending |-> beginning + s]]
    /\ ret = [fn |-> "months", n |-> NoMonthFile, n1 |-> NoMonthFile,
              metadata |-> [beginning_date |-> 0, ending_date |-> 0,
                            Beginning |-> 0, Ending |-> 0],
              files |-> [metadata_json |-> "none", transactions_csv |-> FALSE]]

NextMonths == ProcessData \/ StatementNotAvailable

SpecMonths == InitMonths /\ [][NextMonths]_vars

(***************************************************************************)
(* Claim C17: no row of the export in two months                           *)
(***************************************************************************)
BothWritten == ret.fn = "months" /\ ret.n.pc = "written" /\ ret.n1.pc = "written"

C29_AllOrNothing ==
    ret.fn = "months" =>
      /\ ret.n1.pc = "raised" =>
            /\ ret.files.metadata_json # "partial"
            /\ ret.files.metadata_json # "none" => ret.files.transactions_csv
      /\ ret.n1.pc = "written" =>
            /\ ret.files.metadata_json = "full" /\ ret.files.transactions_csv
            /\ ret.metadata.Beginning = arg.metadata.Ending
            /\ ret.metadata.Ending =
                  IF ret.n1.rows = <<>> THEN ret.metadata.Beginning
                  ELSE ret.n1.rows[Len(ret.n1.rows)].Balance

(***************************************************************************)
(* chase_csv.py, discover_csv.py: create_fake_transactions writes the      *)
(* transactions.csv of a month that has a metadata.json only; the          *)
(* assembler then loads the directories.  arg.faked holds the months the   *)
(* function was called on.                                                 *)
(***************************************************************************)
\* (mutant) the placeholder row carries no amount
create_fake_transactions_zero(metadata, date) ==
    <<[Date |-> date, Description |-> 1, Amount |-> 0,
       Balance |-> metadata.Ending]>>

\* create_fake_transactions: pd.DataFrame([data]), one row
create_fake_transactions(metadata, date) ==
    <<[Date |-> date, Description |-> 1,
       Amount |-> metadata.Ending - metadata.Beginning,
       Balance |-> metadata.Ending]>>

\* create_fake_transactions(metadata_path), date being the metadata's "date"
CreateFakeTransactions(p, date) ==
    /\ arg.fn = "fake"
    /\ out = NoOut
    /\ disk[p].present
    /\ p \notin arg.faked
    /\ disk' = [disk EXCEPT ![p].rows =
                  create_fake_transactions(load_metadata_from_json(disk, p), date)]
    /\ arg' = [arg EXCEPT !.faked = @ \cup {p}]
    /\ UNCHANGED <<acct, out, batch, xfill, ret>>

\* month directories holding a metadata.json with any two balances
InitFake ==
    /\ disk \in {MkDisk(pres, metas, <<>>) :
                    pres \in SUBSET DiskPeriods,
                    metas \in [DiskPeriods -> Metas]}
    /\ acct = NoAcct
    /\ out = NoOut
    /\ batch = NoBatch
    /\ xfill = NoFill
    /\ arg = [fn |-> "fake", faked |-> {}]
    /\ ret = NoRet

NextFake ==
    \/ \E p \in DiskPeriods, date \in Dates : CreateFakeTransactions(p, date)
    \/ \E od \in OpenDates : Construct(od, NoPeriod, NoPeriod)

SpecFake == InitFake /\ [][NextFake]_vars

(***************************************************************************)
(* Claim C18: the placeholder month                                        *)
(***************************************************************************)
\* C18: a month written by create_fake_transactions has exactly one row,
\* whose Amount is Ending balance - Beginning balance and whose Balance is
\* the Ending balance, so Beginning balance + sum(Amount) = Ending balance
\* and the assembler's month total check never fails on that month
C18_FakeMonthBalances ==
    arg.fn = "fake" =>
      /\ \A p \in arg.faked :
           \A m \in {load_metadata_from_json(disk, p)} :
              /\ Len(disk[p].rows) = 1
              /\ disk[p].rows[1].Amount = m.Ending - m.Beginning
              /\ disk[p].rows[1].Balance = m.Ending
              /\ m.Beginning + SumAmount(load_data_from_csv(disk, p)) = m.Ending
              /\ ~MonthTotalFails(m, SumAmount(load_data_from_csv(disk, p)))
      /\ (out.op = "construct" /\ out.reason = "month_total")
            => out.at \notin arg.faked

\* the assembler has loaded a placeholder month whose two balances differ
C18_Witness ==
    /\ arg.fn = "fake"
    /\ out.op = "construct" /\ out.status = "ok"
    /\ \E p \in arg.faked :
          /\ disk[p].end # disk[p].beg
          /\ p \in DOMAIN acct.metadata_by_period

(***************************************************************************)
(* apple.py, discover_metadata.py: a statement's summary figures and the   *)
(* files written for it.  arg holds what the parser extracted from the     *)
(* PDF, ret what the per-file function raised and the files it wrote.      *)
(***************************************************************************)
PersistInstitutions == {"apple", "discover_4589"}

\* apple_data_process: check_totals, the metadata identity, the final
\* balance; nothing is written by it
apple_data_process(df, metadata) ==
    IF check_totals(df, [debits |-> metadata.total_charges_credits_returns,
                         credits |-> metadata.total_payments]).raised # ""
    THEN "Exception"
    ELSE IF metadata.previous_total_balance
              + metadata.total_charges_credits_returns
              - metadata.total_payments # metadata.total_balance
    THEN "ValueError"
    ELSE apple_final_balance(df, [Beginning |-> metadata.previous_total_balance,
                                  Ending |-> metadata.total_balance])

\* check_extracted_metadata: defined in discover_metadata.py, called by
\* no function of the repository
check_extracted_metadata(metadata) ==
    IF metadata.Beginning + metadata.payments_and_credits + metadata.purchases
         + metadata.balance_transfers + metadata.cash_advances
         + metadata.fees_charged + metadata.interest_charged # metadata.Ending
    THEN "ValueError" ELSE ""

\* process_apple_pdf: apple_data_process, then makedirs, metadata.json and
\* transactions.csv
ProcessApplePdf ==
    /\ arg.fn = "persist"
    /\ arg.inst = "apple"
    /\ ret = NoRet
    /\ \E raised \in {apple_data_process(arg.df, arg.metadata)} :
          ret' = [fn |-> "persist", raised |-> raised,
                  written |-> IF raised = ""
                              THEN {"metadata.json", "transactions.csv"}
                              ELSE {}]
    /\ UNCHANGED <<disk, acct, out, batch, xfill, arg>>

\* process_4589: discover_metadata_extract_from_pdf, then makedirs and
\* metadata.json
Process4589 ==
    /\ arg.fn = "persist"
    /\ arg.inst = "discover_4589"
    /\ ret = NoRet
    /\ ret' = [fn |-> "persist", raised |-> "", written |-> {"metadata.json"}]
    /\ UNCHANGED <<disk, acct, out, batch, xfill, arg>>

\* the figures of a statement whose every required field was found
InitPersist ==
    /\ disk = [p \in DiskPeriods |-> NoMonth]
    /\ acct = NoAcct
    /\ out = NoOut
    /\ batch = NoBatch
    /\ xfill = NoFill
    /\ \/ \E previous \in Cents, charges \in Cents, payments \in Cents,
             total \in Cents,
             df \in SeqsUpTo([Amount : Amts, section : Sections],
                             MaxStmtRows) \ {<<>>} :
             arg = [fn |-> "persist", inst |-> "apple", df |-> df,
                    metadata |-> [previous_total_balance |-> previous,
                                  total_charges_credits_returns |-> charges,
                                  total_payments |-> payments,
                                  total_balance |-> total]]
       \/ \E m \in [Beginning : Cents, Ending : Cents,
                    payments_and_credits : {-1, 0}, purchases : {0, 1},
                    balance_transfers : {0, 1}, cash_advances : {0, 1},
                    fees_charged : {0, 1}, interest_charged : {0, 1}] :
             arg = [fn |-> "persist", inst |-> "discover_4589", df |-> <<>>,
                    metadata |-> m]
    /\ ret = NoRet

NextPersist == ProcessApplePdf \/ Process4589

SpecPersist == InitPersist /\ [][NextPersist]_vars

(***************************************************************************)
(* Claim C20: figures that break the balance identity are not written      *)
(***************************************************************************)
\* C20: an Apple statement with previous_total_balance +
\* total_charges_credits_returns - total_payments # total_balance raises
\* and no file is written; a Discover card statement whose Beginning
\* balance plus its six activity figures is not its Ending balance raises
\* and metadata.json is not written
C20_IdentityViolationsNotPersisted ==
    ret.fn = "persist" =>
      /\ (arg.inst = "apple"
          /\ arg.metadata.previous_total_balance
               + arg.metadata.total_charges_credits_returns
               - arg.metadata.total_payments # arg.metadata.total_balance)
            => (ret.raised # "" /\ ret.written = {})
      /\ (arg.inst = "discover_4589"
          /\ check_extracted_metadata(arg.metadata) # "")
            => (ret.raised # "" /\ "metadata.json" \notin ret.written)

(***************************************************************************)
(* commons.py: TransactionID.  A text is a sequence of characters, a date  *)
(* a day and a time of day, an amount a number of tenths of a cent.  arg   *)
(* holds two rows with the account number each is hashed with, ret the     *)
(* TransactionID column of either.                                         *)
(***************************************************************************)
Chars == {"a", "A", " "}
Texts ==
    {t \in SeqsUpTo(Chars, 4) :
        ~(\E i \in 1..Len(t) : t[i] = "a") \/ ~(\E i \in 1..Len(t) : t[i] = "A")}
Moments == {[day |-> 1, time |-> 0], [day |-> 1, time |-> 1],
            [day |-> 2, time |-> 0]}
Mills == {10, 14, 20}

\* str.lower()
lower(t) == [i \in 1..Len(t) |-> IF t[i] = "A" THEN "a" ELSE t[i]]

\* str.split(): the maximal runs of characters that are not whitespace
RECURSIVE split(_)
split(t) ==
    IF t = <<>> THEN <<>>
    ELSE IF t[1] = " " THEN split(Tail(t))
    ELSE LET n == CHOOSE k \in 1..Len(t) :
                    /\ \A i \in 1..k : t[i] # " "
                    /\ (k = Len(t) \/ t[k + 1] = " ")
         IN <<SubSeq(t, 1, n)>> \o split(SubSeq(t, n + 1, Len(t)))

\* " ".join(words)
RECURSIVE join(_)
join(words) ==
    IF words = <<>> THEN <<>>
    ELSE IF Len(words) = 1 THEN words[1]
    ELSE words[1] \o <<" ">> \o join(Tail(words))

\* _normalize_text: " ".join(str(x).strip().lower().split())
normalize_text(x) == join(split(lower(x)))

\* _amount_to_cents: int(round(float(x) * 100)), halves to the even cent
amount_to_cents(x) ==
    LET q == x \div 10
        r == x % 10
    IN IF r < 5 THEN q
       ELSE IF r > 5 THEN q + 1
       ELSE IF q % 2 = 0 THEN q ELSE q + 1

\* (mutant) the running balance of the row is part of the name
canonical_name_with_balance(row, account_number) ==
    <<normalize_text(account_number), row.Date.day,
      normalize_text(row.Description), amount_to_cents(row.Amount),
      row.Balance>>

\* _canonical_name: f"{acct}|{date_iso}|{desc}|{cents}"
canonical_name(row, account_number) ==
    <<normalize_text(account_number), row.Date.day,
      normalize_text(row.Description), amount_to_cents(row.Amount)>>

\* _deterministic_id: the first 16 hex digits of the name's SHA-256, which
\* depend on the name alone
deterministic_id(row, account_number) ==
    [sha256_16 |-> canonical_name(row, account_number)]

\* data["TransactionID"] = data.apply(lambda r: _deterministic_id(r, acct))
AssignTransactionID ==
    /\ arg.fn = "ids"
    /\ ret = NoRet
    /\ ret' = [fn |-> "ids",
               TransactionID |->
                  [i \in 1..Len(arg.rows) |->
                      deterministic_id(arg.rows[i], arg.acct[i])]]
    /\ UNCHANGED <<disk, acct, out, batch, xfill, arg>>

\* two rows, the second written as the first with another text for the
\* account or for the description, another date, amount, and another
\* Balance, Category, Flow Type, Source and position
InitIds ==
    /\ disk = [p \in DiskPeriods |-> NoMonth]
    /\ acct = NoAcct
    /\ out = NoOut
    /\ batch = NoBatch
    /\ xfill = NoFill
    /\ \E t1 \in Texts, t2 \in Texts, where \in {"account", "description"},
          date \in Moments, amount \in Mills, rest \in BOOLEAN :
          arg = [fn |-> "ids",
                 acct |-> IF where = "account" THEN <<t1, t2>>
                          ELSE <<(<<"a">>), <<"a">>>>,
                 rows |->
                   <<[Date |-> [day |-> 1, time |-> 0],
                      Description |-> IF where = "description" THEN t1
                                      ELSE <<"a">>,
                      Amount |-> 10, Balance |-> 0, Category |-> "Undefined",
                      FlowType |-> "Undefined", Source |-> "a.csv",
                      position |-> 1],
                     [Date |-> date,
                      Description |-> IF where = "description" THEN t2
                                      ELSE <<"a">>,
                      Amount |-> amount,
                      Balance |-> IF rest THEN 1 ELSE 0,
                      Category |-> IF rest THEN "Groceries" ELSE "Undefined",
                      FlowType |-> IF rest THEN "Expense" ELSE "Undefined",
                      Source |-> IF rest THEN "b.csv" ELSE "a.csv",
                      position |-> IF rest THEN 2 ELSE 1]>>]
    /\ ret = NoRet

NextIds == AssignTransactionID

SpecIds == InitIds /\ [][NextIds]_vars

(***************************************************************************)
(* Claim C21: what a TransactionID depends on                              *)
(***************************************************************************)
\* the words of a text, letter case apart
Words(t) ==
    LET starts == {i \in 1..Len(t) :
                     t[i] # " " /\ (i = 1 \/ t[i - 1] = " ")}
        endOf(i) == CHOOSE k \in i..Len(t) :
                       /\ \A j \in i..k : t[j] # " "
                       /\ (k = Len(t) \/ t[k + 1] = " ")
    IN {<<Cardinality({j \in starts : j <= i}),
          [k \in 1..(endOf(i) - i + 1) |->
              IF t[i + k - 1] = "A" THEN "a" ELSE t[i + k - 1]]>> : i \in starts}

SameEvent ==
    /\ Words(arg.acct[1]) = Words(arg.acct[2])
    /\ arg.rows[1].Date.day = arg.rows[2].Date.day
    /\ Words(arg.rows[1].Description) = Words(arg.rows[2].Description)
    /\ amount_to_cents(arg.rows[1].Amount) = amount_to_cents(arg.rows[2].Amount)

\* C21: two rows that agree on the account and the description up to
\* letter case and whitespace layout, on the day and on the amount in
\* cents have the same TransactionID, whatever their other columns
C21_IdDependsOnEventOnly ==
    (ret.fn = "ids" /\ SameEvent)
        => ret.TransactionID[1] = ret.TransactionID[2]

\* two rows of one event that differ in the layout of a text and in every
\* other column
C21_Witness ==
    /\ ret.fn = "ids" /\ SameEvent
    /\ arg.rows[1].Balance # arg.rows[2].Balance
    /\ arg.rows[1].Date # arg.rows[2].Date
    /\ arg.rows[1].Amount # arg.rows[2].Amount
    /\ \/ arg.acct[1] # arg.acct[2] /\ Len(split(arg.acct[1])) = 2
       \/ /\ arg.rows[1].Description # arg.rows[2].Description
          /\ Len(split(arg.rows[1].Description)) = 2

(***************************************************************************)
(* Claim C28: TransactionID within one month's table                       *)
(***************************************************************************)
\* C28: two rows at different positions of the table written for one
\* account and month have different TransactionIDs
C28_DistinctRowsDistinctIds ==
    (/\ ret.fn = "ids"
     /\ arg.acct[1] = arg.acct[2]
     /\ arg.rows[1].position # arg.rows[2].position)
        => ret.TransactionID[1] # ret.TransactionID[2]

(***************************************************************************)
(* apple.py: the payments block of a statement.  A line of the block is a  *)
(* payment (date, description, amount text) and the block ends with the    *)
(* line "Total payments <amount text>"; an amount text is its digits and   *)
(* whether a minus sign precedes the dollar sign.  The transactions block  *)
(* of the statement is one purchase of 1 with its two total lines.         *)
(***************************************************************************)
AmountTexts == [minus : BOOLEAN, digits : {1, 2}]

\* Decimal(amount.replace("$", "").replace(",", ""))
str2dec(amount) == IF amount.minus THEN 0 - amount.digits ELSE amount.digits

\* re.findall(r"\$[\d.]+", ...)[-1]: the digits after the last dollar sign
last_dollar_amount(amount) == [minus |-> FALSE, digits |-> amount.digits]

\* extract_payments_table, then correct_last_rows_payments: the payment
\* lines as they are printed, and the summary row made from the footer
extract_payments_table(lines, footer) ==
    [i \in 1..Len(lines) |->
        [Date |-> lines[i].Date, Description |-> i, Amount |-> lines[i].Amount,
         table_type |-> "Payments"]]
    \o <<[Date |-> "N/A", Description |-> "Total payments",
          Amount |-> last_dollar_amount(footer), table_type |-> "Payments"]>>

\* apple_data_extract, apple_data_process and the sign change at its end
ProcessPayments ==
    /\ arg.fn = "payments"
    /\ ret = NoRet
    /\ \E table \in {extract_payments_table(arg.lines, arg.footer)} :
       \E df \in {[i \in 1..(Len(table) - 1) |->
                     [Amount |-> str2dec(table[i].Amount),
                      section |-> "credit"]]
                  \o <<[Amount |-> 1, section |-> "debit"]>>} :
       \E metadata \in {[previous_total_balance |-> arg.previous,
                         total_charges_credits_returns |-> 1,
                         total_payments |-> str2dec(table[Len(table)].Amount),
                         total_balance |-> arg.total]} :
       \E raised \in {apple_data_process(df, metadata)} :
          ret' = [fn |-> "payments", raised |-> raised,
                  summary |-> table[Len(table)],
                  total_payments |-> metadata.total_payments,
                  payments |->
                     IF raised # "" THEN <<>>
                     ELSE [i \in 1..(Len(table) - 1) |->
                              [Date |-> table[i].Date,
                               Amount |-> 0 - df[i].Amount]]]
    /\ UNCHANGED <<disk, acct, out, batch, xfill, arg>>

InitPayments ==
    /\ disk = [p \in DiskPeriods |-> NoMonth]
    /\ acct = NoAcct
    /\ out = NoOut
    /\ batch = NoBatch
    /\ xfill = NoFill
    /\ \E lines \in SeqsUpTo([Date : {1}, Amount : AmountTexts], MaxStmtRows),
          footer \in AmountTexts, previous \in Cents, total \in Cents :
          arg = [fn |-> "payments", lines |-> lines, footer |-> footer,
                 previous |-> previous, total |-> total]
    /\ ret = NoRet

NextPayments == ProcessPayments

SpecPayments == InitPayments /\ [][NextPayments]_vars

(***************************************************************************)
(* Claim C22: one payment and its footer                                   *)
(***************************************************************************)
\* the block of the scenario: one payment line "<date> ... $v", the footer
\* "Total payments $v", in a statement whose other figures add up
Scenario ==
    /\ Len(arg.lines) = 1
    /\ ~arg.lines[1].Amount.minus
    /\ arg.footer = arg.lines[1].Amount
    /\ arg.previous + 1 - arg.footer.digits = arg.total

\* C22: for the block of the scenario the extraction gives one payment
\* transaction of amount -v and one summary row equal to -v, and
\* check_totals passes
C22_PaymentsScenario ==
    (ret.fn = "payments" /\ Scenario)
        => /\ ret.raised = ""
           /\ Len(ret.payments) = 1
           /\ ret.payments[1].Amount = 0 - arg.footer.digits
           /\ str2dec(ret.summary.Amount) = 0 - arg.footer.digits

(***************************************************************************)
(* discover_metadata.py: a Discover savings statement and its split into   *)
(* calendar months.  The dates of the statement are (year, month) pairs;   *)
(* its rows are in date order and carry the Balance that                   *)
(* discover_savings_data_extract_from_pdf computed, whose last value is    *)
(* the statement's Ending balance.                                         *)
(***************************************************************************)
SavingsPeriods == <<(<<2023, 11>>), <<2023, 12>>, <<2024, 1>>>>

\* discover_savings_statement_split: for month in range(beginning month,
\* ending month + 1), the rows whose date.month is that month; Balance.iloc[0]
\* of a month without rows is an IndexError
discover_savings_statement_split(data, metadata) ==
    IF metadata.beginning_date[2] # metadata.ending_date[2]
    THEN LET months == {m \in 1..12 : /\ metadata.beginning_date[2] <= m
                                      /\ m <= metadata.ending_date[2]}
             month_data(m) == SelectSeq(data, LAMBDA r : r.Date[2] = m)
             nth(k) == CHOOSE m \in months :
                          Cardinality({n \in months : n <= m}) = k
         IN IF \E m \in months : month_data(m) = <<>>
            THEN [raised |-> "IndexError", cells |-> <<>>]
            ELSE [raised |-> "",
                  cells |-> [k \in 1..Cardinality(months) |->
                     [period |-> <<metadata.beginning_date[1], nth(k)>>,
                      Beginning |-> month_data(nth(k))[1].Balance
                                      - month_data(nth(k))[1].Amount,
                      Ending |-> month_data(nth(k))[Len(month_data(nth(k)))].Balance,
                      rows |-> month_data(nth(k))]]]
    ELSE [raised |-> "",
          cells |-> <<[period |-> metadata.beginning_date,
                       Beginning |-> metadata.Beginning,
                       Ending |-> metadata.Ending, rows |-> data]>>]

\* process_8384: the split, then metadata.json and transactions.csv of
\* each cell and one row of processed_statements per cell
Process8384 ==
    /\ arg.fn = "savings"
    /\ ret = NoRet
    /\ \E r \in {discover_savings_statement_split(arg.data, arg.metadata)} :
          ret' = [fn |-> "savings", raised |-> r.raised, cells |-> r.cells,
                  processed_statements |-> Len(r.cells)]
    /\ UNCHANGED <<disk, acct, out, batch, xfill, arg>>

\* a statement that discover_savings_data_extract_from_pdf returned: at
\* least one row, every row inside the period, the Ending balance met
InitSavings ==
    /\ disk = [p \in DiskPeriods |-> NoMonth]
    /\ acct = NoAcct
    /\ out = NoOut
    /\ batch = NoBatch
    /\ xfill = NoFill
    /\ \E b \in 1..Len(SavingsPeriods), e \in 1..Len(SavingsPeriods),
          beginning \in Cents,
          s \in SeqsUpTo((1..Len(SavingsPeriods)) \X Amts, MaxStmtRows) \ {<<>>} :
          /\ b <= e
          /\ \A i \in 1..Len(s) : b <= s[i][1] /\ s[i][1] <= e
          /\ \A i \in 1..Len(s) : \A j \in 1..Len(s) : i < j => s[i][1] <= s[j][1]
          /\ \E rows \in {[i \in 1..Len(s) |-> [Amount |-> s[i][2]]]} :
                arg = [fn |-> "savings",
                       metadata |-> [beginning_date |-> SavingsPeriods[b],
                                     ending_date |-> SavingsPeriods[e],
                                     Beginning |-> beginning,
                                     Ending |-> beginning + SumAmount(rows)],
                       data |-> [i \in 1..Len(s) |->
                                   [Date |-> SavingsPeriods[s[i][1]],
                                    Amount |-> s[i][2],
                                    Balance |-> beginning
                                       + SumAmount(SubSeq(rows, 1, i))]]]
    /\ ret = NoRet

NextSavings == Process8384

SpecSavings == InitSavings /\ [][NextSavings]_vars

(***************************************************************************)
(* Claim C27: one cell per calendar month                                  *)
(***************************************************************************)
\* C27: a statement that is processed without an error gives one cell for
\* each calendar month from its beginning date's to its ending date's, in
\* order, at least one cell, and each cell begins with the balance the
\* cell before it ended with
C27_OneCellPerMonth ==
    (ret.fn = "savings" /\ ret.raised = "")
        => /\ [k \in 1..Len(ret.cells) |-> ret.cells[k].period]
                 = month_iter(arg.metadata.beginning_date[1],
                              arg.metadata.beginning_date[2],
                              arg.metadata.ending_date)
           /\ Len(ret.cells) >= 1
           /\ ret.processed_statements >= 1
           /\ \A k \in 2..Len(ret.cells) :
                 ret.cells[k].Beginning = ret.cells[k - 1].Ending

====
